---- MODULE Spec2Model ----
(***************************************************************************)
(* Model of the fbas-reward-distributor ranking engine: the cooperative    *)
(* game over an FBAS, the exact and the approximate Shapley-Shubik power   *)
(* index, NodeRank, and the reward allocation built on them.               *)
(*                                                                         *)
(* 64-bit floats are modelled as exact rationals <<num, den>> in lowest    *)
(* terms with den > 0; <<0, 0>> is NaN and <<1, 0>> is +infinity.  Vec<T>  *)
(* is a sequence (element i of the Vec is element i+1 of the sequence),    *)
(* Option<T> is <<>> (None) or <<x>> (Some(x)), a NodeIdSet is a set.      *)
(***************************************************************************)
EXTENDS Integers, Sequences, FiniteSets, TLC

VARIABLES
    fbas,       \* the FBAS under analysis: NodeId -> QuorumSet
    pc,         \* "idle", "sampling", "batch", "done" or "aborted" (the call
                \* panicked or the run returned an error)
    call,       \* the call in progress or just returned, with its arguments
    scores,     \* the Vec<Score> a ranking call returned
    rewards,    \* the Vec<(NodeId, Score, Reward)> a distribution call returned
    used_tt,    \* exact engine: the top tier the enumeration ran over
    critical,   \* exact engine: players_critical_coalitions
    raw,        \* the per-player sums before round_to_three_places
    loop,       \* approximate engine: position and accumulator of the loops
    firstRun,   \* the first completed approximation of this process
    ret,        \* a helper called on its own: its arguments and what it returned
    batch       \* a run of the measurement harness: its arguments, the output
                \* file, the task list, the workers and the truth cache

vars == <<fbas, pc, call, scores, rewards, used_tt, critical, raw, loop, firstRun,
          ret, batch>>

(* ------------------------------ bounds --------------------------------- *)

\* number of nodes of the FBAS under analysis
MaxNodes == 3

\* largest num_samples of an approximation call
MaxSamples == 2

\* largest numerator of a value handed to round_to_three_places on its own
MaxRoundNum == 7

\* largest reward budget of a distribution call
MaxReward == 4

\* PageRank scores range over k/100, k in 0..MaxPr
MaxPr == 1

\* seeds range over 0..MaxSeed
MaxSeed == 1

\* largest --max-top-tier-size of a harness run
MaxTopTierSize == 2

\* largest --runs of a harness run
MaxRuns == 2

\* largest --jobs of a harness run
MaxJobs == 2

Nodes == 0 .. (MaxNodes - 1)

(* --------------------------- generic helpers --------------------------- *)

Range(s) == {s[i] : i \in DOMAIN s}

Min(S) == CHOOSE x \in S : \A y \in S : x <= y

RECURSIVE SortedSeq(_)
SortedSeq(S) == IF S = {} THEN <<>> ELSE <<Min(S)>> \o SortedSeq(S \ {Min(S)})

Abs(x) == IF x < 0 THEN -x ELSE x

RECURSIVE GCD(_, _)
GCD(a, b) == IF b = 0 THEN Abs(a) ELSE GCD(b, a % b)

(* ------------------------- f64 as exact rationals ---------------------- *)

NaN == <<0, 0>>

IsNaN(x) == x[2] = 0 /\ x[1] = 0

IsFinite(x) == x[2] # 0

Sign(n) == IF n > 0 THEN 1 ELSE IF n < 0 THEN -1 ELSE 0

Rat(n, d) ==
    IF d = 0 THEN <<Sign(n), 0>>
    ELSE LET g == GCD(n, d)
             s == IF d < 0 THEN -1 ELSE 1
         IN  <<s * (n \div g), s * (d \div g)>>

FromInt(n) == <<n, 1>>

Zero == <<0, 1>>

FAdd(x, y) ==
    IF IsNaN(x) \/ IsNaN(y) THEN NaN
    ELSE IF ~IsFinite(x) /\ ~IsFinite(y) THEN (IF x[1] = y[1] THEN x ELSE NaN)
    ELSE IF ~IsFinite(x) THEN x
    ELSE IF ~IsFinite(y) THEN y
    ELSE Rat(x[1] * y[2] + y[1] * x[2], x[2] * y[2])

FMul(x, y) ==
    IF IsNaN(x) \/ IsNaN(y) THEN NaN
    ELSE IF ~IsFinite(x) \/ ~IsFinite(y)
         THEN <<Sign(x[1]) * Sign(y[1]), 0>>
    ELSE Rat(x[1] * y[1], x[2] * y[2])

\* IEEE division: 0/0 is NaN, x/0 is an infinity
FDiv(x, y) ==
    IF IsNaN(x) \/ IsNaN(y) THEN NaN
    ELSE IF ~IsFinite(x) THEN (IF IsFinite(y) THEN x ELSE NaN)
    ELSE IF ~IsFinite(y) THEN Zero
    ELSE IF y[1] = 0 THEN <<Sign(x[1]), 0>>
    ELSE Rat(x[1] * y[2], x[2] * y[1])

\* f64::trunc on a finite value: towards zero
FTrunc(x) ==
    IF ~IsFinite(x) THEN x
    ELSE IF x[1] >= 0 THEN FromInt(x[1] \div x[2])
    ELSE FromInt(-((-x[1]) \div x[2]))

RECURSIVE FSum(_)
FSum(s) == IF s = <<>> THEN Zero ELSE FAdd(Head(s), FSum(Tail(s)))

\* x < y on finite values
FLess(x, y) == x[1] * y[2] < y[1] * x[2]

(* ------------- the FBAS library (fbas_analyzer) as consumed ------------ *)

QuorumSet(validators, inner, threshold) ==
    [threshold |-> threshold, validators |-> validators,
     inner_quorum_sets |-> inner]

new_empty == QuorumSet(<<>>, <<>>, 0)

flat_qset(validators, threshold) == QuorumSet(validators, <<>>, threshold)

RECURSIVE contained_nodes(_)
contained_nodes(q) ==
    Range(q.validators) \cup
    UNION {contained_nodes(q.inner_quorum_sets[i]) :
             i \in DOMAIN q.inner_quorum_sets}

RECURSIVE is_quorum_slice(_, _)
is_quorum_slice(q, S) ==
    IF q.threshold = 0 THEN FALSE
    ELSE Cardinality({i \in DOMAIN q.validators : q.validators[i] \in S})
         + Cardinality({i \in DOMAIN q.inner_quorum_sets :
                          is_quorum_slice(q.inner_quorum_sets[i], S)})
         >= q.threshold

is_quorum(S, f) == S # {} /\ \A v \in S : is_quorum_slice(f[v], S)

\* remove nodes whose quorum set is not satisfied until none is left to remove
RECURSIVE satisfiable(_, _)
satisfiable(S, f) ==
    LET bad == {v \in S : ~is_quorum_slice(f[v], S)}
    IN  IF bad = {} THEN S ELSE satisfiable(S \ {Min(bad)}, f)

contains_quorum(S, f) == satisfiable(S, f) # {}

find_minimal_quorums(f) ==
    {Q \in SUBSET (DOMAIN f) :
        /\ is_quorum(Q, f)
        /\ \A P \in SUBSET Q : P # Q => ~is_quorum(P, f)}

all_intersect(sets) == \A x \in sets : \A y \in sets : x = y \/ x \cap y # {}

involved_nodes(sets) == UNION sets

\* canonical string of a quorum set: a flat token list, negative numbers
\* being the delimiters
RECURSIVE into_id_string(_)
RECURSIVE concat_id_strings(_)
concat_id_strings(qs) ==
    IF qs = <<>> THEN <<>>
    ELSE into_id_string(Head(qs)) \o concat_id_strings(Tail(qs))

into_id_string(q) ==
    <<-1, q.threshold, -2>> \o q.validators \o <<-3>>
        \o concat_id_strings(q.inner_quorum_sets) \o <<-4>>

(* ------------------------------ rank/util.rs --------------------------- *)

\* an iteration order of a HashSet
RECURSIVE SetToSeq(_)
SetToSeq(S) ==
    IF S = {} THEN <<>>
    ELSE LET x == CHOOSE y \in S : TRUE IN <<x>> \o SetToSeq(S \ {x})

\* hex(Sha3_256(string)): a content identifier, injective on the strings
quorum_set_hash(q) == into_id_string(q)

RECURSIVE generators_loop(_, _, _)
generators_loop(f, nodes, generators) ==
    IF nodes = <<>> THEN generators
    ELSE LET v == Head(nodes)
             h == quorum_set_hash(f[v])
         IN  generators_loop(f, Tail(nodes),
                IF h \in DOMAIN generators
                THEN [generators EXCEPT ![h] = @ \cup {v}]
                ELSE [k \in DOMAIN generators \cup {h} |->
                        IF k = h THEN {v} ELSE generators[k]])

map_quorum_sets_to_generators(f) ==
    generators_loop(f, SortedSeq(DOMAIN f), [k \in {} |-> {}])

quorum_sets_listing_node(node_id, f) ==
    {f[v] : v \in {u \in DOMAIN f :
                      \E i \in DOMAIN f[u].validators : f[u].validators[i] = node_id}}

all_quorum_sets_containing_node(node_id, f) ==
    {f[v] : v \in {u \in DOMAIN f : node_id \in contained_nodes(f[u])}}

qset_weight_over_members(quorum_set) ==
    FDiv(FromInt(quorum_set.threshold),
         FromInt(Len(quorum_set.validators) + Len(quorum_set.inner_quorum_sets)))

qset_weight(quorum_set) ==
    FDiv(FromInt(quorum_set.threshold),
         FromInt(Cardinality(contained_nodes(quorum_set))))

is_in_qset(validators, node) == \E i \in DOMAIN validators : validators[i] = node

\* 1 + the index of the first inner set listing the node, 1 when none does
RECURSIVE depth_scan(_, _, _)
depth_scan(inners, node, idx) ==
    IF idx > Len(inners) THEN 0
    ELSE IF is_in_qset(inners[idx].validators, node) THEN idx
    ELSE depth_scan(inners, node, idx + 1)

depth_in_inner_sets(inner_quorum_set, node) ==
    IF is_in_qset(inner_quorum_set.validators, node) THEN 1
    ELSE 1 + depth_scan(inner_quorum_set.inner_quorum_sets, node, 1)

RECURSIVE nesting_scan(_, _)
nesting_scan(inners, node) ==
    IF inners = <<>> THEN 0
    ELSE LET depth == depth_in_inner_sets(Head(inners), node)
         IN  IF depth # 0 THEN depth + 1 ELSE nesting_scan(Tail(inners), node)

nodes_nesting_depth(quorum_set, node) ==
    IF is_in_qset(quorum_set.validators, node) THEN 1
    ELSE nesting_scan(quorum_set.inner_quorum_sets, node)

RECURSIVE next_scan(_, _)
next_scan(inners, node_id) ==
    IF inners = <<>> THEN new_empty
    ELSE IF node_id \in contained_nodes(Head(inners)) THEN Head(inners)
    ELSE next_scan(Tail(inners), node_id)

find_last_quorum_set_containing_node(quorum_set, node_id) ==
    LET inners == quorum_set.inner_quorum_sets
        hits == {i \in DOMAIN inners : node_id \in contained_nodes(inners[i])}
    IN  IF hits = {} THEN new_empty
        ELSE inners[CHOOSE i \in hits : \A j \in hits : j <= i]

find_next_quorum_set_containing_node(quorum_set, node_id) ==
    next_scan(quorum_set.inner_quorum_sets, node_id)

RECURSIVE node_weight_in_quorum_set(_, _)
node_weight_in_quorum_set(node_id, quorum_set) ==
    IF nodes_nesting_depth(quorum_set, node_id) = 0 THEN FromInt(1)
    ELSE FMul(qset_weight(quorum_set),
              node_weight_in_quorum_set(node_id,
                  find_next_quorum_set_containing_node(quorum_set, node_id)))

get_list_of_creators_for_quorum_set(quorum_set, sets_to_nodes) ==
    LET qset_hash == quorum_set_hash(quorum_set)
    IN  IF qset_hash \in DOMAIN sets_to_nodes THEN sets_to_nodes[qset_hash]
        ELSE {}

RECURSIVE product(_, _)
product(from, to) == IF from > to THEN 1 ELSE from * product(from + 1, to)

n_factorial_one_too_far(n) == IF n = 0 THEN 1 ELSE product(2, n) * n

n_factorial(n) == IF n = 0 THEN 1 ELSE product(2, n - 1) * n

round_to_three_places(n) == FDiv(FTrunc(FMul(n, FromInt(1000))), FromInt(1000))

(* ------------------------------ types/game.rs ------------------------- *)

\* Vec::dedup: drop an element equal to the one kept just before it
RECURSIVE dedup(_)
dedup(v) ==
    IF Len(v) <= 1 THEN v
    ELSE LET rest == dedup(Tail(v))
         IN  IF Head(v) = Head(rest) THEN rest ELSE <<Head(v)>> \o rest

init_from_fbas(nodes, f) == [players |-> dedup(nodes), top_tier |-> <<>>]

init_from_fbas_with_top_tier(all_nodes, top_tier, f) ==
    [players |-> dedup(all_nodes), top_tier |-> <<top_tier>>]

coalitions_cardinatily(coalition) == Cardinality(coalition)

get_involved_nodes(f) == SortedSeq(involved_nodes(find_minimal_quorums(f)))

\* the two-argument form the engines call: the quorum-intersection check
\* (4.D step 1) in front of the top tier
get_involved_nodes_checked(f, qi_check) ==
    IF qi_check /\ ~all_intersect(find_minimal_quorums(f))
    THEN [panic |-> TRUE, val |-> <<>>]
    ELSE [panic |-> FALSE, val |-> get_involved_nodes(f)]

(* ------------------------ rank/exact_shapley_shubik.rs ----------------- *)

value_added_to_one_coalition(coalition, num_players, fact_total) ==
    LET set_size == coalitions_cardinatily(coalition)
        set_size_minus_one_factorial == n_factorial(set_size - 1)
        n_minus_set_size_factorial == n_factorial(num_players - set_size)
        dividend == set_size_minus_one_factorial * n_minus_set_size_factorial
        gcd == GCD(dividend, fact_total)
        numerator == dividend \div gcd
        denominator == fact_total \div gcd
    IN  FDiv(FromInt(numerator), FromInt(denominator))

find_winning_coalitions_skipping_first(f, top_tier) ==
    {s \in SUBSET Range(SubSeq(top_tier, 2, Len(top_tier))) :
        contains_quorum(s, f)}

find_winning_coalitions_of_fbas(f, top_tier) ==
    {s \in SUBSET (DOMAIN f) : contains_quorum(s, f)}

find_winning_coalitions(f, top_tier) ==
    {s \in SUBSET Range(top_tier) : contains_quorum(s, f)}

RECURSIVE critical_loop(_, _, _)
critical_loop(player, todo, winning_coalitions) ==
    IF todo = <<>> THEN <<>>
    ELSE LET w == Head(todo)
         IN  (IF player \in w /\ (w \ {player}) \notin winning_coalitions
              THEN <<w>> ELSE <<>>)
             \o critical_loop(player, Tail(todo), winning_coalitions)

player_is_member(player, winning_coalitions) ==
    SetToSeq({w \in winning_coalitions : player \in w})

player_is_critical(player, winning_coalitions) ==
    critical_loop(player, SetToSeq(winning_coalitions), winning_coalitions)

\* the sum before rounding
power_index_sum(critical_coalitions, num_players, total_factorial) ==
    FSum([i \in DOMAIN critical_coalitions |->
            value_added_to_one_coalition(critical_coalitions[i], num_players,
                                         total_factorial)])

computer_power_index_for_player(critical_coalitions, num_players, total_factorial) ==
    round_to_three_places(
        power_index_sum(critical_coalitions, num_players, total_factorial))

NoScores == [panic |-> TRUE, scores |-> <<>>, raw |-> <<>>, critical |-> <<>>,
             top_tier |-> <<>>]

compute_exact_ss_power_index_for_game(game, qi_check, f) ==
    LET inv == IF game.top_tier # <<>>
               THEN [panic |-> FALSE, val |-> game.top_tier[1]]
               ELSE get_involved_nodes_checked(f, qi_check)
    IN  IF inv.panic THEN NoScores
        ELSE LET top_tier == inv.val
                 num_players == Len(top_tier)
                 total_factorial == n_factorial(Len(top_tier))
                 winning_coalitions == find_winning_coalitions(f, top_tier)
                 players_critical_coalitions ==
                     [i \in DOMAIN game.players |->
                        player_is_critical(game.players[i], winning_coalitions)]
             IN  [panic |-> FALSE,
                  scores |-> [i \in DOMAIN game.players |->
                      computer_power_index_for_player(
                          players_critical_coalitions[i], num_players,
                          total_factorial)],
                  raw |-> [i \in DOMAIN game.players |->
                      power_index_sum(players_critical_coalitions[i],
                                      num_players, total_factorial)],
                  critical |-> players_critical_coalitions,
                  top_tier |-> top_tier]

(* ------------------------------ rank/node_rank.rs ---------------------- *)

RECURSIVE node_rank_loop(_, _, _, _)
node_rank_loop(node_id, involving_sets, sets_to_generators, pr_scores) ==
    IF involving_sets = <<>> THEN Zero
    ELSE LET set == Head(involving_sets)
             creators == get_list_of_creators_for_quorum_set(set, sets_to_generators)
             pr_sum == FSum([i \in 1 .. Cardinality(creators) |->
                                pr_scores[SortedSeq(creators)[i] + 1]])
             quorum_set_weight == node_weight_in_quorum_set(node_id, set)
         IN  FAdd(FMul(pr_sum, quorum_set_weight),
                  node_rank_loop(node_id, Tail(involving_sets),
                                 sets_to_generators, pr_scores))

\* the sum before rounding
node_rank_sum_for(node_id, qsets_containting_node, sets_to_generators, pr_scores) ==
    node_rank_loop(node_id, SetToSeq(qsets_containting_node),
                   sets_to_generators, pr_scores)

compute_node_rank(node_id, qsets_containting_node, sets_to_generators, pr_scores) ==
    round_to_three_places(
        node_rank_sum_for(node_id, qsets_containting_node, sets_to_generators,
                          pr_scores))

\* page_rank_scores is what fbas.rank_nodes() returned
compute_node_rank_for_fbas(nodes, f, page_rank_scores) ==
    LET sets_generators_map == map_quorum_sets_to_generators(f)
    IN  [i \in DOMAIN nodes |->
            compute_node_rank(nodes[i],
                              all_quorum_sets_containing_node(nodes[i], f),
                              sets_generators_map, page_rank_scores)]

(* ------------------------------ dist/allocate.rs ----------------------- *)

graph_theory_distribution(nodes, f, reward, page_rank_scores) ==
    LET node_scores == compute_node_rank_for_fbas(nodes, f, page_rank_scores)
        node_rank_sum == FSum(node_scores)
    IN  [node \in DOMAIN node_scores |->
            LET reward_factor == FDiv(node_scores[node], node_rank_sum)
            IN  <<node - 1, node_scores[node],
                  round_to_three_places(FMul(reward_factor, reward))>>]

allocate_reward_to_players(node_scores, reward) ==
    [node \in DOMAIN node_scores |->
        <<node - 1, node_scores[node],
          round_to_three_places(FMul(node_scores[node], reward))>>]

all_nodes_of(f) == SortedSeq(DOMAIN f)

new_game_from_fbas(f) == init_from_fbas(all_nodes_of(f), f)

exact_game_theory_distribution(f, reward, top_tier, qi_check) ==
    LET game == IF top_tier # <<>>
                THEN init_from_fbas_with_top_tier(all_nodes_of(f), top_tier[1], f)
                ELSE new_game_from_fbas(f)
        out == compute_exact_ss_power_index_for_game(game, qi_check, f)
    IN  [out |-> out,
         alloc |-> IF out.panic THEN <<>>
                   ELSE allocate_reward_to_players(out.scores, reward)]

(* ------------------------------ rank/ranking.rs ------------------------ *)

rank_nodes_PowerIndexEnum(f, tt, qi_check) ==
    IF tt # <<>>
    THEN compute_exact_ss_power_index_for_game(
             init_from_fbas_with_top_tier(all_nodes_of(f), tt[1], f), qi_check, f)
    ELSE compute_exact_ss_power_index_for_game(
             init_from_fbas(all_nodes_of(f), f), qi_check, f)

rank_nodes_NodeRank(f, page_rank_scores) ==
    compute_node_rank_for_fbas(all_nodes_of(f), f, page_rank_scores)

(* --------------------------- the FBAS family --------------------------- *)

AllNodes == SortedSeq(Nodes)

\* all nodes but the last one
HeadNodes == SubSeq(AllNodes, 1, MaxNodes - 1)

\* all nodes but node 0
TailNodes == SubSeq(AllNodes, 2, MaxNodes)

\* what a node may publish
QSetKinds ==
    {<<"empty", 0>>, <<"self", 1>>, <<"nested", 2>>, <<"nested", 1>>,
     <<"deep", 2>>, <<"twice", 2>>}
    \cup {<<"all", t>> : t \in 1 .. MaxNodes}
    \cup {<<"head", MaxNodes - 1>>}

QSetOf(kind, i) ==
    CASE kind[1] = "empty"  -> new_empty
      [] kind[1] = "self"   -> flat_qset(<<i>>, 1)
      [] kind[1] = "all"    -> flat_qset(AllNodes, kind[2])
      [] kind[1] = "head"   -> flat_qset(HeadNodes, kind[2])
      [] kind[1] = "nested" ->
            QuorumSet(<<0>>, <<flat_qset(TailNodes, 1)>>, kind[2])
      [] kind[1] = "deep"   ->
            QuorumSet(<<0>>,
                      <<QuorumSet(<<1>>, <<flat_qset(<<MaxNodes - 1>>, 1)>>, 1)>>,
                      kind[2])
      [] kind[1] = "twice"  ->
            QuorumSet(<<0, 1>>,
                      <<flat_qset(<<1>>, 1), flat_qset(TailNodes, 1)>>,
                      kind[2])

\* node 0 publishes a, the others b
FbasOf(a, b) == [i \in Nodes |-> IF i = 0 THEN QSetOf(a, i) ELSE QSetOf(b, i)]

FbasFamily == {FbasOf(a, b) : a \in QSetKinds, b \in QSetKinds}

NoCall == [op |-> "none", qi_check |-> FALSE, top_tier |-> <<>>, reward |-> Zero,
           pr |-> <<>>, samples |-> 0, seed |-> 0]

NoLoop == [player |-> 0, sample |-> 0, estimate |-> 0, pred |-> <<>>,
           contribution |-> 0, order |-> <<>>]

NoRet == [op |-> "none"]

NoBatch == [status |-> "none"]

Idle ==
    /\ pc = "idle"
    /\ call = NoCall
    /\ scores = <<>>
    /\ rewards = <<>>
    /\ used_tt = <<>>
    /\ critical = <<>>
    /\ raw = <<>>
    /\ loop = NoLoop
    /\ firstRun = <<>>
    /\ ret = NoRet
    /\ batch = NoBatch

Init == fbas \in FbasFamily /\ Idle

\* a precomputed top tier a caller may pass in
TopTierArgs == {<<>>} \cup {<<SortedSeq(s)>> : s \in SUBSET Nodes}

\* what exact_game_theory_distribution is given: nothing, or the top tier
DistTopTierArgs(f) == {<<>>, <<get_involved_nodes(f)>>}

Rewards == {FromInt(r) : r \in 0 .. MaxReward}

(* ------------------------------- operations ---------------------------- *)

\* rank_nodes(fbas, PowerIndexEnum(tt), qi_check)
RankExact(tt, qi_check) ==
    /\ pc = "idle"
    /\ LET out == rank_nodes_PowerIndexEnum(fbas, tt, qi_check)
       IN  /\ pc' = IF out.panic THEN "aborted" ELSE "done"
           /\ scores' = out.scores
           /\ used_tt' = out.top_tier
           /\ critical' = out.critical
           /\ raw' = out.raw
    /\ call' = [NoCall EXCEPT !.op = "rank_exact", !.qi_check = qi_check,
                              !.top_tier = tt]
    /\ UNCHANGED <<fbas, rewards, loop, firstRun, ret, batch>>

\* exact_game_theory_distribution(fbas, reward, top_tier, qi_check)
DistExact(reward, tt, qi_check) ==
    /\ pc = "idle"
    /\ LET res == exact_game_theory_distribution(fbas, reward, tt, qi_check)
       IN  /\ pc' = IF res.out.panic THEN "aborted" ELSE "done"
           /\ scores' = res.out.scores
           /\ used_tt' = res.out.top_tier
           /\ critical' = res.out.critical
           /\ raw' = res.out.raw
           /\ rewards' = res.alloc
    /\ call' = [NoCall EXCEPT !.op = "dist_exact", !.qi_check = qi_check,
                              !.top_tier = tt, !.reward = reward]
    /\ UNCHANGED <<fbas, loop, firstRun, ret, batch>>

\* the call returned (or its panic unwound): the process is ready for the next
Return ==
    /\ pc \in {"done", "aborted"}
    /\ pc' = "idle"
    /\ call' = NoCall
    /\ scores' = <<>>
    /\ rewards' = <<>>
    /\ used_tt' = <<>>
    /\ critical' = <<>>
    /\ raw' = <<>>
    /\ loop' = NoLoop
    /\ UNCHANGED <<fbas, firstRun>>
    /\ ret' = NoRet
    /\ batch' = NoBatch

Next ==
    \/ \E tt \in TopTierArgs, qi_check \in BOOLEAN : RankExact(tt, qi_check)
    \/ \E reward \in Rewards, tt \in DistTopTierArgs(fbas), qi_check \in BOOLEAN :
          DistExact(reward, tt, qi_check)
    \/ Return

Spec == Init /\ [][Next]_vars

(* ------------------------ NodeRank and its allocation ------------------ *)

\* fbas.rank_nodes(): the library's PageRank, 100 rounds without damping.
\* Every round starts from zero and adds to a node only what the nodes
\* listing it pass on, so a node that no quorum set contains ends at 0;
\* the other scores range over the multiples of 0.01 up to MaxPr/100.
PageRanks(f) ==
    {pr \in [1 .. Cardinality(DOMAIN f) -> {Rat(k, 100) : k \in 0 .. MaxPr}] :
        \A v \in DOMAIN f :
            (\A u \in DOMAIN f : v \notin contained_nodes(f[u])) => pr[v + 1] = Zero}

\* rank_nodes(fbas, NodeRank, qi_check)
RankNodeRank(pr) ==
    /\ pc = "idle"
    /\ pc' = "done"
    /\ scores' = rank_nodes_NodeRank(fbas, pr)
    /\ raw' = [i \in DOMAIN AllNodes |->
                 node_rank_sum_for(AllNodes[i],
                                   all_quorum_sets_containing_node(AllNodes[i], fbas),
                                   map_quorum_sets_to_generators(fbas), pr)]
    /\ call' = [NoCall EXCEPT !.op = "rank_noderank", !.pr = pr]
    /\ UNCHANGED <<fbas, rewards, used_tt, critical, loop, firstRun, ret, batch>>

\* graph_theory_distribution(nodes, fbas, reward, qi_check)
DistGraph(reward, pr, qi_check) ==
    /\ pc = "idle"
    /\ pc' = "done"
    /\ rewards' = graph_theory_distribution(AllNodes, fbas, reward, pr)
    /\ scores' = [i \in DOMAIN rewards' |-> rewards'[i][2]]
    /\ call' = [NoCall EXCEPT !.op = "dist_graph", !.pr = pr, !.reward = reward,
                              !.qi_check = qi_check]
    /\ UNCHANGED <<fbas, used_tt, critical, raw, loop, firstRun, ret, batch>>

NextNodeRank ==
    \/ \E pr \in PageRanks(fbas) : RankNodeRank(pr)
    \/ \E reward \in Rewards, pr \in PageRanks(fbas), qi_check \in BOOLEAN :
          DistGraph(reward, pr, qi_check)
    \/ Return

\* every kind published by all nodes, or by node 0 next to nodes that publish
\* nothing or a nested quorum set
NodeRankFamily ==
    {FbasOf(a, b) : a \in QSetKinds, b \in {<<"empty", 0>>, <<"nested", 2>>}}
    \cup {FbasOf(a, a) : a \in QSetKinds}

InitNodeRank == fbas \in NodeRankFamily /\ Idle

SpecNodeRank == InitNodeRank /\ [][NextNodeRank]_vars

(* ------------------------ the approximate engine ----------------------- *)

IndexOf(s, x) == Min({k \in DOMAIN s : s[k] = x})

\* Pre^i(O): what comes before player i in the order O, nothing if i is absent
pred_of_player_i(i, permutation) ==
    IF \E k \in DOMAIN permutation : permutation[k] = i
    THEN SubSeq(permutation, 1, IndexOf(permutation, i) - 1)
    ELSE <<>>

marginal_contribution_ignoring_pred(player, pred, f) ==
    IF contains_quorum(Range(pred) \cup {player}, f) THEN 1 ELSE 0

\* v(pred + player) - v(pred)
compute_player_i_marginal_contribution(player, pred, f) ==
    LET predecessor == Range(pred)
        pred_union_player == predecessor \cup {player}
    IN  IF contains_quorum(pred_union_player, f) /\ ~contains_quorum(predecessor, f)
        THEN 1
        ELSE 0

\* what one element of the sample iterator can be: the grand coalition after
\* grand_coalition.shuffle(&mut rand::thread_rng()), any order of the players
generate_sample_permutations(players) ==
    {o \in [DOMAIN players -> Range(players)] :
        \A j \in DOMAIN players, k \in DOMAIN players : o[j] = o[k] => j = k}

\* the end of compute_approx_ss_power_index_for_player
estimate_to_score(estimate, total_samples) ==
    round_to_three_places(FDiv(FromInt(estimate), FromInt(total_samples)))

Players == init_from_fbas(AllNodes, fbas).players

\* the entry of compute_approx_ss_power_index_for_game, up to the first
\* player's loop; c records the call that led here
StartSampling(c, qi_check) ==
    /\ pc = "idle"
    /\ pc' = IF qi_check /\ ~all_intersect(find_minimal_quorums(fbas))
             THEN "aborted"
             ELSE "sampling"
    /\ call' = c
    /\ loop' = [NoLoop EXCEPT !.player = Head(Players)]
    /\ scores' = <<>>
    /\ UNCHANGED <<fbas, rewards, used_tt, critical, raw, firstRun, ret, batch>>

\* game.compute_approx_ss_power_index_for_game(num_samples, qi_check)
ApproxGame(samples, qi_check) ==
    StartSampling([NoCall EXCEPT !.op = "approx_game", !.qi_check = qi_check,
                                 !.samples = samples],
                  qi_check)

\* rank_nodes(fbas, PowerIndexApprox(samples, seed), qi_check): the seed is
\* handed on, and the engine has no use for it
RankApprox(samples, seed, qi_check) ==
    StartSampling([NoCall EXCEPT !.op = "rank_approx", !.qi_check = qi_check,
                                 !.samples = samples, !.seed = seed],
                  qi_check)

\* one turn of `for sample in permutation_samples`: the player's clone of the
\* lazy iterator shuffles again, whatever the other players' clones drew
DrawSample(sample) ==
    /\ pc = "sampling"
    /\ loop.sample < call.samples
    /\ LET pred == pred_of_player_i(loop.player, sample)
           contribution == compute_player_i_marginal_contribution(loop.player, pred, fbas)
       IN  loop' = [loop EXCEPT !.sample = @ + 1,
                                !.pred = pred,
                                !.contribution = contribution,
                                !.estimate = @ + contribution]
    /\ UNCHANGED <<fbas, pc, call, scores, rewards, used_tt, critical, raw, firstRun, ret, batch>>

\* the player's iterator is exhausted: its score is collected and the next
\* player starts, or the vector is returned
FinishPlayer ==
    /\ pc = "sampling"
    /\ loop.sample = call.samples
    /\ scores' = Append(scores, estimate_to_score(loop.estimate, call.samples))
    /\ raw' = Append(raw, FromInt(loop.estimate))
    /\ LET k == IndexOf(Players, loop.player)
       IN  IF k = Len(Players)
           THEN /\ pc' = "done"
                /\ loop' = NoLoop
           ELSE /\ pc' = "sampling"
                /\ loop' = [NoLoop EXCEPT !.player = Players[k + 1]]
    /\ UNCHANGED <<fbas, call, rewards, used_tt, critical, firstRun, ret, batch>>

\* some predecessor list, not necessarily cut from a permutation
PredLists == UNION {[1 .. n -> Nodes] : n \in 0 .. MaxNodes}

\* compute_player_i_marginal_contribution called on its own
MarginalContribution(player, pred) ==
    /\ pc = "idle"
    /\ pc' = "done"
    /\ call' = [NoCall EXCEPT !.op = "marginal"]
    /\ loop' = [NoLoop EXCEPT
                  !.player = player,
                  !.pred = pred,
                  !.contribution =
                      compute_player_i_marginal_contribution(player, pred, fbas)]
    /\ UNCHANGED <<fbas, scores, rewards, used_tt, critical, raw, firstRun, ret, batch>>

\* compute_approx_ss_power_index_for_player(player, vec![sample].into_iter(),
\* 1, fbas) called on its own, with a sample the caller made: the loop body
\* runs once and the estimate is divided and rounded
ApproxPlayer(player, sample) ==
    /\ pc = "idle"
    /\ pc' = "done"
    /\ call' = [NoCall EXCEPT !.op = "approx_player", !.samples = 1]
    /\ LET pred == pred_of_player_i(player, sample)
           contribution == compute_player_i_marginal_contribution(player, pred, fbas)
       IN  /\ loop' = [NoLoop EXCEPT !.player = player,
                                     !.sample = 1,
                                     !.order = sample,
                                     !.pred = pred,
                                     !.contribution = contribution,
                                     !.estimate = contribution]
           /\ scores' = <<estimate_to_score(contribution, 1)>>
           /\ raw' = <<FromInt(contribution)>>
    /\ UNCHANGED <<fbas, rewards, used_tt, critical, firstRun, ret, batch>>

NextApprox ==
    \/ \E samples \in 0 .. MaxSamples, qi_check \in BOOLEAN :
          ApproxGame(samples, qi_check)
    \/ \E sample \in generate_sample_permutations(Players) : DrawSample(sample)
    \/ FinishPlayer
    \/ \E player \in Nodes, pred \in PredLists : MarginalContribution(player, pred)
    \/ \E player \in Nodes, sample \in PredLists : ApproxPlayer(player, sample)
    \/ Return

\* every kind of quorum set, flat ones with the threshold 2, published by
\* all nodes
ApproxFamily ==
    {FbasOf(a, a) : a \in {k \in QSetKinds : k[1] = "all" => k[2] = 2}}

InitApprox == fbas \in ApproxFamily /\ Idle

SpecApprox == InitApprox /\ [][NextApprox]_vars

(* ---------------- two approximations by the same caller ---------------- *)

\* the caller keeps the vector of its first approximation and goes on
KeepFirst ==
    /\ pc = "done"
    /\ call.op = "rank_approx"
    /\ firstRun = <<>>
    /\ firstRun' = <<[samples |-> call.samples, seed |-> call.seed,
                      scores |-> scores]>>
    /\ pc' = "idle"
    /\ call' = NoCall
    /\ scores' = <<>>
    /\ raw' = <<>>
    /\ loop' = NoLoop
    /\ UNCHANGED <<fbas, rewards, used_tt, critical, ret, batch>>

NextSeed ==
    \/ \E samples \in 1 .. MaxSamples, seed \in 0 .. MaxSeed, qi_check \in BOOLEAN :
          RankApprox(samples, seed, qi_check)
    \/ \E sample \in generate_sample_permutations(Players) : DrawSample(sample)
    \/ FinishPlayer
    \/ KeepFirst
    \/ Return

\* the 2-of-n and the n-of-n FBAS: both have quorum intersection
SeedFamily ==
    {FbasOf(<<"all", 2>>, <<"all", 2>>),
     FbasOf(<<"all", MaxNodes>>, <<"all", MaxNodes>>)}

InitSeed == fbas \in SeedFamily /\ Idle

SpecSeed == InitSeed /\ [][NextSeed]_vars

(* ------------------- the helpers of rank/util.rs on their own ---------- *)

\* a quorum set of at most one validator per level
OneOrNone == {<<>>} \cup {<<n>> : n \in Nodes}

\* innermost sets: flat, of one validator at most or of the first two nodes
LeafSets == {flat_qset(v, 1) : v \in OneOrNone \cup {<<0, 1>>}}

\* sets with up to two flat inner sets, the first of two listing node 0
MidSets ==
    {QuorumSet(v, inner, 1) :
        v \in OneOrNone,
        inner \in {<<>>} \cup {<<a>> : a \in LeafSets}
                         \cup {<<flat_qset(<<0>>, 1), b>> : b \in LeafSets}}

\* the quorum set of the test node_weight_in_quorum_set_paper_example,
\* over the first four nodes
PaperExample == QuorumSet(<<0, 1>>, <<flat_qset(<<2, 3>>, 1)>>, 3)

\* top-level sets: up to two inner sets, the second one up to three levels
WeightSets ==
    {QuorumSet(v, inner, t) :
        v \in OneOrNone,
        inner \in {<<>>} \cup {<<m>> : m \in MidSets}
                         \cup {<<a, m>> : a \in LeafSets, m \in MidSets},
        t \in 1 .. 2}
    \cup {new_empty, PaperExample}

\* the nodes asked about: those of the sets and one beyond them
WeightNodes == Nodes \cup {MaxNodes}

\* node_weight_in_quorum_set(node_id, quorum_set) called on its own, with
\* what its first level computes on the way
NodeWeight(node_id, quorum_set) ==
    /\ pc = "idle"
    /\ pc' = "done"
    /\ call' = [NoCall EXCEPT !.op = "node_weight"]
    /\ ret' = [op |-> "node_weight",
               node |-> node_id,
               qset |-> quorum_set,
               depth |-> nodes_nesting_depth(quorum_set, node_id),
               next |-> find_next_quorum_set_containing_node(quorum_set, node_id),
               weight |-> node_weight_in_quorum_set(node_id, quorum_set)]
    /\ UNCHANGED <<fbas, scores, rewards, used_tt, critical, raw, loop, firstRun,
                   batch>>

\* the values handed to round_to_three_places: thirds and multiples of 0.0005
RoundInputs == {Rat(n, d) : n \in 0 .. MaxRoundNum, d \in {3, 2000}}

\* round_to_three_places(n) called on its own
RoundToThreePlaces(n) ==
    /\ pc = "idle"
    /\ pc' = "done"
    /\ call' = [NoCall EXCEPT !.op = "round"]
    /\ ret' = [op |-> "round", n |-> n, out |-> round_to_three_places(n)]
    /\ UNCHANGED <<fbas, scores, rewards, used_tt, critical, raw, loop, firstRun,
                   batch>>

\* the node lists a caller can hand to the constructors of the game, equal
\* ids adjacent or not
GameNodeLists == UNION {[1 .. n -> Nodes] : n \in 0 .. MaxNodes}

\* CooperativeGame::init_from_fbas(nodes, fbas)
InitFromFbas(nodes) ==
    /\ pc = "idle"
    /\ pc' = "done"
    /\ call' = [NoCall EXCEPT !.op = "init_from_fbas"]
    /\ ret' = [op |-> "init_from_fbas",
               nodes |-> nodes,
               game |-> init_from_fbas(nodes, fbas)]
    /\ UNCHANGED <<fbas, scores, rewards, used_tt, critical, raw, loop, firstRun,
                   batch>>

\* CooperativeGame::init_from_fbas_with_top_tier(all_nodes, top_tier, fbas)
InitFromFbasWithTopTier(all_nodes, top_tier) ==
    /\ pc = "idle"
    /\ pc' = "done"
    /\ call' = [NoCall EXCEPT !.op = "init_from_fbas_with_top_tier",
                              !.top_tier = <<top_tier>>]
    /\ ret' = [op |-> "init_from_fbas_with_top_tier",
               nodes |-> all_nodes,
               game |-> init_from_fbas_with_top_tier(all_nodes, top_tier, fbas)]
    /\ UNCHANGED <<fbas, scores, rewards, used_tt, critical, raw, loop, firstRun,
                   batch>>

NextUtil ==
    \/ pc = "idle" /\ \E node_id \in WeightNodes, quorum_set \in WeightSets :
                         NodeWeight(node_id, quorum_set)
    \/ \E n \in RoundInputs : RoundToThreePlaces(n)
    \/ \E nodes \in GameNodeLists : InitFromFbas(nodes)
    \/ \E all_nodes \in GameNodeLists, top_tier \in {<<>>, AllNodes} :
          InitFromFbasWithTopTier(all_nodes, top_tier)
    \/ Return

\* the helpers read no FBAS: one is enough
InitUtil == fbas = FbasOf(<<"all", 2>>, <<"all", 2>>) /\ Idle

SpecUtil == InitUtil /\ [][NextUtil]_vars

(* --------------------- the reports of io/report.rs --------------------- *)

\* the public key of a node, as to_public_keys reads it from the FBAS
public_key_of(node) == <<"node", node>>

\* to_public_keys(nodes, fbas): the key of each listed node, in list order
to_public_keys(nodes) == [k \in DOMAIN nodes |-> public_key_of(nodes[k])]

\* PublicKey::default()
NoPublicKey == <<>>

\* where slice::sort_by puts x in an already sorted prefix: before the first
\* element the comparator orders after it, behind everything else (stable)
RECURSIVE sort_insert(_, _, _)
sort_insert(sorted, x, score_of) ==
    IF sorted = <<>> THEN <<x>>
    ELSE IF FLess(score_of[Head(sorted)[1] + 1], score_of[x[1] + 1])
         THEN <<x>> \o sorted
         ELSE <<Head(sorted)>> \o sort_insert(Tail(sorted), x, score_of)

\* rows.sort_by(|x, y| scores[y.0].partial_cmp(&scores[x.0]).unwrap()) on
\* rows whose scores compare
RECURSIVE sort_by_score(_, _)
sort_by_score(rows, score_of) ==
    IF rows = <<>> THEN <<>>
    ELSE sort_insert(sort_by_score(SubSeq(rows, 1, Len(rows) - 1), score_of),
                     rows[Len(rows)], score_of)

\* the indexing and the unwrap that abort a report: scores[node] or pks[node]
\* past the end, or a comparison with a NaN (partial_cmp gives None)
report_panics(nodes, score_of, with_pks) ==
    \/ \E k \in DOMAIN nodes : nodes[k] >= Len(score_of)
    \/ with_pks /\ \E k \in DOMAIN nodes : nodes[k] >= Len(nodes)
    \/ Len(nodes) >= 2 /\ \E k \in DOMAIN nodes : IsNaN(score_of[nodes[k] + 1])

\* create_node_ranking_report(nodes, scores, fbas, with_pks)
create_node_ranking_report(nodes, score_of, with_pks) ==
    IF report_panics(nodes, score_of, with_pks) THEN [panic |-> TRUE, rows |-> <<>>]
    ELSE LET pks == IF with_pks THEN to_public_keys(nodes) ELSE <<>>
             rankings == [k \in DOMAIN nodes |->
                             <<nodes[k],
                               IF with_pks THEN pks[nodes[k] + 1] ELSE NoPublicKey,
                               score_of[nodes[k] + 1]>>]
         IN  [panic |-> FALSE, rows |-> sort_by_score(rankings, score_of)]

\* create_reward_report(id_score_reward, fbas, with_pks)
create_reward_report(id_score_reward, with_pks) ==
    LET nodes == [k \in DOMAIN id_score_reward |-> id_score_reward[k][1]]
        score_of == [k \in DOMAIN id_score_reward |-> id_score_reward[k][2]]
        rewards_in == [k \in DOMAIN id_score_reward |-> id_score_reward[k][3]]
    IN  IF report_panics(nodes, score_of, with_pks)
        THEN [panic |-> TRUE, rows |-> <<>>]
        ELSE LET pks == IF with_pks THEN to_public_keys(nodes) ELSE <<>>
                 rows == [k \in DOMAIN nodes |->
                             <<nodes[k],
                               IF with_pks THEN pks[nodes[k] + 1] ELSE NoPublicKey,
                               score_of[nodes[k] + 1],
                               rewards_in[nodes[k] + 1]>>]
             IN  [panic |-> FALSE, rows |-> sort_by_score(rows, score_of)]

\* every order of the nodes of S
RECURSIVE Orderings(_)
Orderings(S) ==
    IF S = {} THEN {<<>>}
    ELSE UNION {{<<n>> \o rest : rest \in Orderings(S \ {n})} : n \in S}

\* the node lists a caller may hand over: any nodes of the FBAS, each once
NodeLists == UNION {Orderings(S) : S \in SUBSET Nodes}

\* the scores an engine may have produced: NaN is what the approximation
\* returns for no samples
ReportScores == {Zero, Rat(1, 2), NaN}

ScoreLists == [1 .. MaxNodes -> ReportScores]

\* create_node_ranking_report called with the scores of all nodes
NodeRankingReport(nodes, node_scores, with_pks) ==
    /\ pc = "idle"
    /\ LET out == create_node_ranking_report(nodes, node_scores, with_pks)
       IN  /\ pc' = IF out.panic THEN "aborted" ELSE "done"
           /\ ret' = [op |-> "ranking_report", nodes |-> nodes,
                      scores |-> node_scores, with_pks |-> with_pks,
                      out |-> out.rows]
    /\ call' = [NoCall EXCEPT !.op = "ranking_report"]
    /\ UNCHANGED <<fbas, scores, rewards, used_tt, critical, raw, loop, firstRun,
                   batch>>

\* an allocation as the distributions return it: entry k is (id, score,
\* reward), the reward of an entry being its position here
AllocationOf(nodes, node_scores) ==
    [k \in DOMAIN nodes |-> <<nodes[k], node_scores[k], FromInt(k)>>]

\* create_reward_report called with an allocation
RewardReport(nodes, node_scores, with_pks) ==
    /\ pc = "idle"
    /\ LET id_score_reward == AllocationOf(nodes, node_scores)
           out == create_reward_report(id_score_reward, with_pks)
       IN  /\ pc' = IF out.panic THEN "aborted" ELSE "done"
           /\ ret' = [op |-> "reward_report", input |-> id_score_reward,
                      with_pks |-> with_pks, out |-> out.rows]
    /\ call' = [NoCall EXCEPT !.op = "reward_report"]
    /\ UNCHANGED <<fbas, scores, rewards, used_tt, critical, raw, loop, firstRun,
                   batch>>

NextReport ==
    \/ \E nodes \in NodeLists, node_scores \in ScoreLists, with_pks \in BOOLEAN :
          NodeRankingReport(nodes, node_scores, with_pks)
    \/ \E nodes \in NodeLists, node_scores \in ScoreLists, with_pks \in BOOLEAN :
          RewardReport(nodes, node_scores, with_pks)
    \/ Return

SpecReport == InitUtil /\ [][NextReport]_vars

(* ------------- the command line (bin/node_influence.rs) --------------- *)

\* the power-index-enum configurations: exclude_tt_comp absent, false, true
EnumConfigs ==
    {[alg |-> "PowerIndexEnum", exclude_tt_comp |-> o] :
        o \in {<<>>, <<FALSE>>, <<TRUE>>}}

\* get_ranking_alg_from_params(cfg), the arm of PowerIndexEnum:
\* Some(Vec::default()) for Some(true), None otherwise
get_ranking_alg_from_params(cfg) ==
    IF cfg.exclude_tt_comp = <<TRUE>>
    THEN [alg |-> "PowerIndexEnum", top_tier |-> <<<<>>>>]
    ELSE [alg |-> "PowerIndexEnum", top_tier |-> <<>>]

\* the subcommand rank: get_ranking_alg_from_params, then compute_influence
\* (rank_nodes and the ranking report), with qi_check = !dont_check_for_qi
RankCmd(cfg, use_pks, qi_check) ==
    /\ pc = "idle"
    /\ LET alg == get_ranking_alg_from_params(cfg)
           out == rank_nodes_PowerIndexEnum(fbas, alg.top_tier, qi_check)
           report == IF out.panic THEN [panic |-> TRUE, rows |-> <<>>]
                     ELSE create_node_ranking_report(AllNodes, out.scores, use_pks)
       IN  /\ pc' = IF report.panic THEN "aborted" ELSE "done"
           /\ scores' = out.scores
           /\ used_tt' = out.top_tier
           /\ critical' = out.critical
           /\ raw' = out.raw
           /\ call' = [NoCall EXCEPT !.op = "rank_cmd", !.qi_check = qi_check,
                                     !.top_tier = alg.top_tier]
           /\ ret' = [op |-> "rank_cmd", cfg |-> cfg, use_pks |-> use_pks,
                      ranked |-> ~out.panic, out |-> report.rows]
    /\ UNCHANGED <<fbas, rewards, loop, firstRun, batch>>

\* the subcommand distribute: get_ranking_alg_from_params, then
\* distribute_rewards (exact_game_theory_distribution and the reward report)
DistributeCmd(cfg, total_reward, use_pks, qi_check) ==
    /\ pc = "idle"
    /\ LET alg == get_ranking_alg_from_params(cfg)
           res == exact_game_theory_distribution(fbas, total_reward, alg.top_tier,
                                                 qi_check)
           report == IF res.out.panic THEN [panic |-> TRUE, rows |-> <<>>]
                     ELSE create_reward_report(res.alloc, use_pks)
       IN  /\ pc' = IF report.panic THEN "aborted" ELSE "done"
           /\ scores' = res.out.scores
           /\ used_tt' = res.out.top_tier
           /\ critical' = res.out.critical
           /\ raw' = res.out.raw
           /\ rewards' = res.alloc
           /\ call' = [NoCall EXCEPT !.op = "distribute_cmd", !.qi_check = qi_check,
                                     !.top_tier = alg.top_tier,
                                     !.reward = total_reward]
           /\ ret' = [op |-> "distribute_cmd", cfg |-> cfg, use_pks |-> use_pks,
                      ranked |-> ~res.out.panic, out |-> report.rows]
    /\ UNCHANGED <<fbas, loop, firstRun, batch>>

NextCli ==
    \/ \E cfg \in EnumConfigs, use_pks \in BOOLEAN, qi_check \in BOOLEAN :
          RankCmd(cfg, use_pks, qi_check)
    \/ \E cfg \in EnumConfigs, total_reward \in Rewards, use_pks \in BOOLEAN,
          qi_check \in BOOLEAN :
          DistributeCmd(cfg, total_reward, use_pks, qi_check)
    \/ Return

SpecCli == Init /\ [][NextCli]_vars

(* --------------- the measurement harness (bin/batch_*_eval.rs) --------- *)

\* simulation::qsc::calculate_67p_threshold: n - floor((n - 1) / 3)
calculate_67p_threshold(n) == IF n = 0 THEN 0 ELSE n - ((n - 1) \div 3)

make_almost_ideal_fbas(top_tier_size) ==
    LET quorum_set == flat_qset(SortedSeq(0 .. (top_tier_size - 1)),
                                calculate_67p_threshold(top_tier_size))
    IN  [i \in 0 .. (top_tier_size - 1) |-> quorum_set]

make_almost_ideal_stellarlike_fbas(top_tier_size) ==
    LET orgs == [k \in 1 .. (top_tier_size \div 3) |->
                    flat_qset(<<(k - 1) * 3, (k - 1) * 3 + 1, (k - 1) * 3 + 2>>, 2)]
        quorum_set == QuorumSet(<<>>, orgs,
                                calculate_67p_threshold(top_tier_size \div 3))
    IN  [i \in 0 .. (top_tier_size - 1) |-> quorum_set]

FbasTypes == {"Stellar", "MobileCoin", "NonSymmetric"}

node_increments(fbas_type) == IF fbas_type = "Stellar" THEN 3 ELSE 1

make_one(fbas_type, top_tier_size) ==
    IF fbas_type = "Stellar" THEN make_almost_ideal_stellarlike_fbas(top_tier_size)
    ELSE make_almost_ideal_fbas(top_tier_size)

\* the inputs with the runs numbered from 1
generate_inputs_from_run_one(max_top_tier_size, runs, fbas_type) ==
    LET sizes == SortedSeq({m \in 1 .. max_top_tier_size :
                               m % node_increments(fbas_type) = 0})
    IN  [k \in 1 .. (Len(sizes) * runs) |->
            <<sizes[((k - 1) \div runs) + 1], ((k - 1) % runs) + 1>>]

\* an InputDataPoint is <<top_tier_size, run>>
generate_inputs(max_top_tier_size, runs, fbas_type) ==
    LET sizes == SortedSeq({m \in 1 .. max_top_tier_size :
                               m % node_increments(fbas_type) = 0})
    IN  [k \in 1 .. (Len(sizes) * runs) |->
            <<sizes[((k - 1) \div runs) + 1], (k - 1) % runs>>]

\* a data point (a CSV row): the key and the measurements
DataPoint(top_tier_size, run, data) ==
    [top_tier_size |-> top_tier_size, run |-> run, data |-> data]

\* InputDataPoint::from_error_data_point, from_perf_data_point
from_data_point(d) == <<d.top_tier_size, d.run>>

\* the derived Ord of InputDataPoint
InputLess(a, b) == a[1] < b[1] \/ (a[1] = b[1] /\ a[2] < b[2])

\* the keys of a BTreeMap in iteration order
RECURSIVE SortedInputs(_)
SortedInputs(S) ==
    IF S = {} THEN <<>>
    ELSE LET least == CHOOSE a \in S : \A b \in S \ {a} : InputLess(a, b)
         IN  <<least>> \o SortedInputs(S \ {least})

NoFile == <<>>

\* load_existing_outputs(path): the rows of the file as a BTreeMap, given as
\* its values in key order; of two rows with one key the later one stays
load_existing_outputs(output_path, file) ==
    IF ~output_path THEN [err |-> FALSE, values |-> <<>>]
    ELSE IF file = NoFile THEN [err |-> TRUE, values |-> <<>>]
    ELSE LET data_points == file[1]
             keys == SortedInputs({from_data_point(data_points[i]) :
                                      i \in DOMAIN data_points})
             last(key) == CHOOSE i \in DOMAIN data_points :
                             /\ from_data_point(data_points[i]) = key
                             /\ \A j \in DOMAIN data_points :
                                   from_data_point(data_points[j]) = key => j <= i
         IN  [err |-> FALSE,
              values |-> [k \in DOMAIN keys |-> data_points[last(keys[k])]]]

\* Task::Analyze(input)
Analyze(input) == [kind |-> "Analyze", input |-> input]

\* Task::ReuseErrorData(output), Task::ReusePerfData(output)
Reuse(output) == [kind |-> "Reuse", output |-> output]

label(task) ==
    IF task.kind = "Analyze" THEN task.input[1] ELSE task.output.top_tier_size

\* tasks.sort_by_cached_key(|t| t.label()): stable, by label
RECURSIVE sort_by_cached_key(_, _)
sort_by_cached_key(tasks, labels) ==
    IF labels = {} THEN <<>>
    ELSE SelectSeq(tasks, LAMBDA t : label(t) = Min(labels))
         \o sort_by_cached_key(tasks, labels \ {Min(labels)})

\* the same task list with an Analyze task for every input, analysed or not
make_sorted_tasklist_analyzing_all(inputs, existing_outputs) ==
    LET tasks == [k \in DOMAIN inputs |-> Analyze(inputs[k])]
                 \o [k \in DOMAIN existing_outputs |-> Reuse(existing_outputs[k])]
    IN  sort_by_cached_key(tasks, {label(tasks[k]) : k \in DOMAIN tasks})

make_sorted_tasklist(inputs, existing_outputs) ==
    LET contains_key(input) ==
            \E k \in DOMAIN existing_outputs :
                from_data_point(existing_outputs[k]) = input
        missing == SelectSeq(inputs, LAMBDA input : ~contains_key(input))
        tasks == [k \in DOMAIN missing |-> Analyze(missing[k])]
                 \o [k \in DOMAIN existing_outputs |-> Reuse(existing_outputs[k])]
    IN  sort_by_cached_key(tasks, {label(tasks[k]) : k \in DOMAIN tasks})

\* the refusal with its test of the flag the wrong way round
output_exists_when_updating(output_path, overwrite_allowed, file) ==
    output_path /\ overwrite_allowed /\ file # NoFile

\* write_csv refusing to write: Err(AlreadyExists)
output_exists(output_path, overwrite_allowed, file) ==
    output_path /\ ~overwrite_allowed /\ file # NoFile

\* the output of an earlier run over sizes up to m with r runs each
EarlierOutput(m, r) ==
    LET inputs == generate_inputs(m, r, "MobileCoin")
    IN  [k \in DOMAIN inputs |-> DataPoint(inputs[k][1], inputs[k][2], "existing")]

\* what may be at the output path when a run starts: nothing, or what an
\* earlier run wrote before it ended or was stopped
ExistingFiles ==
    {NoFile} \cup
    UNION {{<<SubSeq(EarlierOutput(m, r), 1, n)>> : n \in 0 .. (m * r)} :
              m \in 1 .. MaxTopTierSize, r \in 1 .. MaxRuns}

\* the command line of a run; NonSymmetric is left out, it makes the FBAS
\* MobileCoin makes
BatchArgs ==
    [max_top_tier_size : 1 .. MaxTopTierSize, runs : 1 .. MaxRuns,
     update : BOOLEAN, output_path : BOOLEAN, jobs : 1 .. MaxJobs,
     fbas_type : FbasTypes \ {"NonSymmetric"}, qi_check : BOOLEAN]

\* main up to the first row, for some command line args and some file
\* existing at the output path (none without a path): generate_inputs,
\* load_existing_outputs,
\* make_sorted_tasklist, bulk_do, and write_csv opening its writer
StartBatch ==
    /\ pc = "idle"
    /\ \E args \in BatchArgs :
       \E existing \in IF args.output_path THEN ExistingFiles ELSE {NoFile} :
         LET inputs == generate_inputs(args.max_top_tier_size, args.runs,
                                       args.fbas_type)
             existing_outputs ==
                 IF args.update
                 THEN load_existing_outputs(args.output_path, existing)
                 ELSE [err |-> FALSE, values |-> <<>>]
             tasks == make_sorted_tasklist(inputs, existing_outputs.values)
             refused == output_exists(args.output_path, args.update, existing)
             state == [status |-> "running", args |-> args, existing |-> existing,
                       file |-> existing, stdout |-> <<>>, tasks |-> tasks,
                       next |-> 1, busy |-> {},
                       cache |-> [size \in 1 .. args.max_top_tier_size |-> <<>>],
                       computed |-> [size \in 1 .. args.max_top_tier_size |-> 0],
                       results |-> [k \in DOMAIN tasks |-> <<>>],
                       written |-> 0]
         IN  /\ call' = [NoCall EXCEPT !.op = "batch", !.qi_check = args.qi_check]
             /\ IF existing_outputs.err
                THEN /\ pc' = "aborted"
                     /\ batch' = [state EXCEPT !.status = "read_failed",
                                               !.tasks = <<>>, !.results = <<>>]
                ELSE IF refused
                THEN /\ pc' = "aborted"
                     /\ batch' = [state EXCEPT !.status = "output_exists"]
                ELSE /\ pc' = "batch"
                     \* Writer::from_path creates the file or truncates it
                     /\ batch' = [state EXCEPT
                            !.file = IF args.output_path THEN <<<<>>>> ELSE existing]
    /\ UNCHANGED <<fbas, scores, rewards, used_tt, critical, raw, loop, firstRun, ret>>

\* rank_nodes(fbas, RankingAlg::PowerIndexEnum(None), qi_check) on the FBAS
\* rank() makes for a size, tabulated
truth_value ==
    [fbas_type \in FbasTypes, size \in 1 .. MaxTopTierSize, qi_check \in BOOLEAN |->
        rank_nodes_PowerIndexEnum(make_one(fbas_type, size), <<>>, qi_check)]

\* get_scores_from_cache(fbas_size)
get_scores_from_cache(cache, fbas_size) == cache[fbas_size]

\* a put that leaves the map as it was
add_to_cache_without_insert(cache, fbas_size, exact_scores) == cache

\* add_to_cache(fbas_size, scores)
add_to_cache(cache, fbas_size, exact_scores) ==
    [cache EXCEPT ![fbas_size] = <<exact_scores>>]

\* a free thread of the pool takes the next task: a reused row is ready at
\* once; for an analysis rank() asks the cache first
\* (get_or_compute_truth_value), and on a miss the thread stays busy with it
WorkerTake ==
    /\ pc = "batch"
    /\ Cardinality(batch.busy) < batch.args.jobs
    /\ batch.next <= Len(batch.tasks)
    /\ LET k == batch.next
           task == batch.tasks[k]
       IN  IF task.kind = "Reuse"
           THEN batch' = [batch EXCEPT !.next = k + 1,
                                       !.results[k] = <<task.output>>]
           ELSE LET cache_scores ==
                        get_scores_from_cache(batch.cache, task.input[1])
                IN  IF cache_scores # <<>>
                    THEN batch' = [batch EXCEPT
                            !.next = k + 1,
                            !.results[k] = <<DataPoint(task.input[1], task.input[2],
                                                       cache_scores[1])>>]
                    ELSE batch' = [batch EXCEPT !.next = k + 1,
                                                !.busy = @ \cup {k}]
    /\ UNCHANGED <<fbas, pc, call, scores, rewards, used_tt, critical, raw, loop,
                   firstRun, ret>>

\* after a miss: a thread busy with a task computes the exact power index,
\* puts it into the cache, and rank() finishes its data point
WorkerCompute ==
    /\ pc = "batch"
    /\ \E k \in batch.busy :
         LET input == batch.tasks[k].input
             exact_power_index ==
                 truth_value[batch.args.fbas_type, input[1], batch.args.qi_check]
         IN  IF exact_power_index.panic
             THEN /\ pc' = "aborted"
                  /\ batch' = [batch EXCEPT !.status = "worker_panicked"]
             ELSE /\ pc' = pc
                  /\ batch' = [batch EXCEPT
                         !.computed[input[1]] = @ + 1,
                         !.cache = add_to_cache(@, input[1], exact_power_index.scores),
                         !.results[k] = <<DataPoint(input[1], input[2],
                                                    exact_power_index.scores)>>,
                         !.busy = @ \ {k}]
    /\ UNCHANGED <<fbas, call, scores, rewards, used_tt, critical, raw, loop,
                   firstRun, ret>>

\* a writer that starts the file anew with every data point
WriteRowIntoFreshFile ==
    /\ pc = "batch"
    /\ batch.written < Len(batch.tasks)
    /\ batch.results[batch.written + 1] # <<>>
    /\ LET data_point == batch.results[batch.written + 1][1]
       IN  batch' = [batch EXCEPT
               !.written = @ + 1,
               !.file = IF batch.args.output_path THEN <<<<data_point>>>> ELSE @,
               !.stdout = IF batch.args.output_path THEN @ ELSE <<data_point>>]
    /\ UNCHANGED <<fbas, pc, call, scores, rewards, used_tt, critical, raw, loop,
                   firstRun, ret>>

\* write_csv_via_writer: the next data point is serialized and flushed
WriteRow ==
    /\ pc = "batch"
    /\ batch.written < Len(batch.tasks)
    /\ batch.results[batch.written + 1] # <<>>
    /\ LET data_point == batch.results[batch.written + 1][1]
       IN  batch' = [batch EXCEPT
               !.written = @ + 1,
               !.file = IF batch.args.output_path
                        THEN <<Append(@[1], data_point)>> ELSE @,
               !.stdout = IF batch.args.output_path
                          THEN @ ELSE Append(@, data_point)]
    /\ UNCHANGED <<fbas, pc, call, scores, rewards, used_tt, critical, raw, loop,
                   firstRun, ret>>

\* write_csv_via_writer: serialize or flush returns an error for the next
\* data point; the ? hands it to main, which ends the run with it
WriteFails ==
    /\ pc = "batch"
    /\ batch.written < Len(batch.tasks)
    /\ batch.results[batch.written + 1] # <<>>
    /\ pc' = "aborted"
    /\ batch' = [batch EXCEPT !.status = "write_failed"]
    /\ UNCHANGED <<fbas, call, scores, rewards, used_tt, critical, raw, loop,
                   firstRun, ret>>

\* all data points are written: write_csv and main return Ok
FinishBatch ==
    /\ pc = "batch"
    /\ batch.written = Len(batch.tasks)
    /\ pc' = "done"
    /\ batch' = [batch EXCEPT !.status = "finished"]
    /\ UNCHANGED <<fbas, call, scores, rewards, used_tt, critical, raw, loop,
                   firstRun, ret>>

NextBatch ==
    \/ StartBatch
    \/ WorkerTake
    \/ WorkerCompute
    \/ WriteRow
    \/ WriteFails
    \/ FinishBatch
    \/ Return

SpecBatch == InitUtil /\ [][NextBatch]_vars

(* ============================ the claims =============================== *)

(* ------------------- the game as the specification states it ----------- *)

HasQuorumIntersection(f) ==
    \A a \in SUBSET (DOMAIN f), b \in SUBSET (DOMAIN f) :
        is_quorum(a, f) /\ is_quorum(b, f) => a \cap b # {}

\* W: the subsets of the top tier that contain a quorum
WinningOf(f, tt) == {w \in SUBSET tt : \E q \in SUBSET w : is_quorum(q, f)}

\* Cp
CriticalOf(p, W) == {w \in W : p \in w /\ (w \ {p}) \notin W}

RECURSIVE Factorial(_)
Factorial(n) == IF n <= 1 THEN 1 ELSE n * Factorial(n - 1)

\* the sum of (|w|-1)! (n-|w|)! over the coalitions of C, as a multiple of 1/n!
RECURSIVE ShapleyNumerator(_, _)
ShapleyNumerator(C, n) ==
    IF C = {} THEN 0
    ELSE LET w == CHOOSE x \in C : TRUE
         IN  Factorial(Cardinality(w) - 1) * Factorial(n - Cardinality(w))
             + ShapleyNumerator(C \ {w}, n)

ShapleyIndex(p, f, tt) ==
    Rat(ShapleyNumerator(CriticalOf(p, WinningOf(f, tt)), Cardinality(tt)),
        Factorial(Cardinality(tt)))

\* the union of the minimal quorums
TopTierOf(f) ==
    UNION {q \in SUBSET (DOMAIN f) :
             is_quorum(q, f) /\ \A r \in SUBSET q : is_quorum(r, f) => r = q}

ExactReturned == pc = "done" /\ call.op \in {"rank_exact", "dist_exact"}

\* x rounded to three decimals is t/1000 for the integer t this returns
Thousandths(x) == FMul(x, FromInt(1000))[1]

\* C1: the exact engine's unrounded score of every player p is the sum over
\* exactly the critical coalitions Cp of (|w|-1)!(n-|w|)!/n!, and
\* player_is_critical returns Cp, no coalition missing and none extra.
C1_ExactScoreSumsOverCriticalCoalitions ==
    ExactReturned =>
        \A i \in DOMAIN critical :
            LET p == AllNodes[i]
                Cp == CriticalOf(p, WinningOf(fbas, Range(used_tt)))
            IN  /\ Range(critical[i]) = Cp
                /\ Len(critical[i]) = Cardinality(Cp)
                /\ raw[i] = ShapleyIndex(p, fbas, Range(used_tt))

\* a player critical in coalitions of two sizes while another player is
\* critical in fewer, some winning coalition being not critical for it
C1_Witness ==
    /\ ExactReturned
    /\ \E i \in DOMAIN critical, j \in DOMAIN critical :
          /\ Len(critical[i]) > Len(critical[j])
          /\ Len(critical[j]) > 0
          /\ \E a \in Range(critical[i]), b \in Range(critical[i]) :
                Cardinality(a) # Cardinality(b)
          /\ WinningOf(fbas, Range(used_tt)) \ Range(critical[i]) # {}

\* C2: on an FBAS with quorum intersection and a non-empty top tier, the
\* exact engine enumerating over that top tier returns indices whose
\* unrounded values sum to exactly 1 and whose three-decimal values sum to
\* within 0.001 per player of 1.
C2_ExactIndicesSumToOne ==
    (/\ ExactReturned
     /\ HasQuorumIntersection(fbas)
     /\ TopTierOf(fbas) # {}
     /\ Range(used_tt) = TopTierOf(fbas))
    => /\ FSum(raw) = FromInt(1)
       /\ Abs(1000 - Thousandths(FSum(scores))) < Len(scores)

\* the rounded scores fall short of 1 although the unrounded ones do not
C2_Witness ==
    /\ ExactReturned
    /\ HasQuorumIntersection(fbas)
    /\ TopTierOf(fbas) # {}
    /\ Range(used_tt) = TopTierOf(fbas)
    /\ FSum(raw) = FromInt(1)
    /\ Thousandths(FSum(scores)) < 1000

C4_OneEntryPerPlayerZeroOutsideTopTier ==
    ExactReturned =>
        /\ Len(scores) = Cardinality(DOMAIN fbas)
        /\ \A i \in DOMAIN scores :
              /\ scores[i] = round_to_three_places(
                                 ShapleyIndex(i - 1, fbas, Range(used_tt)))
              /\ (i - 1) \notin Range(used_tt) => scores[i] = Zero

\* a player outside the enumerated top tier next to one with a positive score
C4_Witness ==
    /\ ExactReturned
    /\ \E i \in DOMAIN scores, j \in DOMAIN scores :
          /\ (i - 1) \notin Range(used_tt)
          /\ (i - 1) \in TopTierOf(fbas)
          /\ scores[j] # Zero

\* C5: with qi_check set and minimal quorums that do not all intersect, a
\* power-index ranking call aborts and returns no scores, whether the top
\* tier is computed or supplied; with qi_check unset no call aborts.
C5_QuorumIntersectionCheck ==
    (pc \in {"done", "aborted"} /\ call.op \in {"rank_exact", "dist_exact"})
    => /\ (call.qi_check /\ ~all_intersect(find_minimal_quorums(fbas)))
              => (pc = "aborted" /\ scores = <<>>)
       /\ ~call.qi_check => pc = "done"

(* ------------------------ the approximate engine ----------------------- *)

ContributionComputed ==
    \/ pc = "done" /\ call.op = "marginal"
    \/ pc = "sampling" /\ call.op = "approx_game" /\ loop.sample > 0

\* S contains a quorum: some non-empty subset of S satisfies all its members
ContainsAQuorum(S, f) == \E q \in SUBSET S : is_quorum(q, f)

\* C6: for every FBAS, predecessor list Pre and player p,
\* compute_player_i_marginal_contribution returns 0 or 1, and 1 exactly when
\* Pre together with p contains a quorum while Pre alone does not.
C6_MarginalContributionIsZeroOrOne ==
    ContributionComputed =>
        LET Pre == Range(loop.pred)
        IN  /\ loop.contribution \in {0, 1}
            /\ loop.contribution = 1 <=>
                  (/\ ContainsAQuorum(Pre \cup {loop.player}, fbas)
                   /\ ~ContainsAQuorum(Pre, fbas))

\* a player completing a quorum with a non-empty list of predecessors
C6_Witness ==
    /\ pc = "done"
    /\ call.op = "marginal"
    /\ loop.pred # <<>>
    /\ loop.contribution = 1

\* C7: two approximations of the same FBAS with the same num_samples and the
\* same seed return the same score vector.
C7_SameSeedSameScores ==
    (/\ pc = "done"
     /\ call.op = "rank_approx"
     /\ firstRun # <<>>
     /\ call.samples = firstRun[1].samples
     /\ call.seed = firstRun[1].seed)
    => scores = firstRun[1].scores

\* C8: on an FBAS with quorum intersection and a non-zero score, the rewards
\* a distribution returns sum to the budget to within 0.001 per node.
C8_RewardsSumToBudget ==
    (/\ pc = "done"
     /\ call.op \in {"dist_exact", "dist_graph", "dist_approx"}
     /\ HasQuorumIntersection(fbas)
     /\ \E i \in DOMAIN rewards : rewards[i][2] # Zero)
    => LET total == FSum([i \in DOMAIN rewards |-> rewards[i][3]])
       IN  /\ IsFinite(total)
           /\ Abs(Thousandths(call.reward) - Thousandths(total)) < Len(rewards)

(* ------------------------------- NodeRank ------------------------------ *)

RECURSIVE TransitivelyContains(_, _)
TransitivelyContains(q, v) ==
    \/ \E i \in DOMAIN q.validators : q.validators[i] = v
    \/ \E i \in DOMAIN q.inner_quorum_sets :
          TransitivelyContains(q.inner_quorum_sets[i], v)

\* the distinct quorum sets published in the FBAS that contain v
ContainingSets(v, f) == {q \in {f[u] : u \in DOMAIN f} : TransitivelyContains(q, v)}

\* the sum of pr over a set of nodes
RECURSIVE PrSum(_, _)
PrSum(us, pr) ==
    IF us = {} THEN Zero
    ELSE LET u == CHOOSE x \in us : TRUE
         IN  FAdd(pr[u + 1], PrSum(us \ {u}, pr))

RECURSIVE NodeRankOver(_, _, _, _)
NodeRankOver(qs, v, f, pr) ==
    IF qs = {} THEN Zero
    ELSE LET q == CHOOSE x \in qs : TRUE
         IN  FAdd(FMul(PrSum({u \in DOMAIN f : f[u] = q}, pr),
                       node_weight_in_quorum_set(v, q)),
                  NodeRankOver(qs \ {q}, v, f, pr))

\* C9: when the NodeRank scores sum to zero because no node appears in any
\* quorum set, graph_theory_distribution gives every node the reward 0.
C9_ZeroScoresGiveZeroRewards ==
    (/\ pc = "done"
     /\ call.op = "dist_graph"
     /\ FSum(scores) = Zero
     /\ \A v \in DOMAIN fbas : ContainingSets(v, fbas) = {})
    => \A i \in DOMAIN rewards : rewards[i][3] = Zero

\* C10: the unrounded NodeRank of v is the sum, over the distinct published
\* quorum sets q containing v, of (the sum of pr over the publishers of q)
\* times node_weight_in(q, v); a node in no quorum set has NodeRank 0.
C10_NodeRankFormula ==
    (pc = "done" /\ call.op = "rank_noderank") =>
        \A v \in DOMAIN fbas :
            /\ raw[v + 1] = NodeRankOver(ContainingSets(v, fbas), v, fbas, call.pr)
            /\ scores[v + 1] = round_to_three_places(raw[v + 1])
            /\ ContainingSets(v, fbas) = {} => scores[v + 1] = Zero

\* a node in two distinct quorum sets, one of them published by two nodes
\* with a positive PageRank
C10_Witness ==
    /\ pc = "done"
    /\ call.op = "rank_noderank"
    /\ \E v \in DOMAIN fbas :
          /\ Cardinality(ContainingSets(v, fbas)) >= 2
          /\ \E q \in ContainingSets(v, fbas) :
                \E a \in DOMAIN fbas, b \in DOMAIN fbas :
                    /\ a # b /\ fbas[a] = q /\ fbas[b] = q
                    /\ call.pr[a + 1] # Zero /\ call.pr[b + 1] # Zero
          /\ scores[v + 1] # Zero

(* --------------------- the weight of a node in a quorum set ------------ *)

WeightCalled == pc = "done" /\ ret.op = "node_weight"

\* the nodes transitively contained in q
NodesOf(q) == {v \in WeightNodes : TransitivelyContains(q, v)}

\* the first inner set of q, in declaration order, that transitively
\* contains v; the empty quorum set when none does
FirstChildContaining(q, v) ==
    LET hits == {i \in DOMAIN q.inner_quorum_sets :
                    TransitivelyContains(q.inner_quorum_sets[i], v)}
    IN  IF hits = {} THEN new_empty ELSE q.inner_quorum_sets[Min(hits)]

DirectValidator(q, v) == \E i \in DOMAIN q.validators : q.validators[i] = v

\* C11 as stated: for a node v found in q (nesting depth >= 1), node_weight_in(q, v) is
\* (T/|Q|) * node_weight_in(next child containing v, v), |Q| being the number
\* of q's direct validators plus the number of its inner quorum sets.
C11_WeightOverValidatorsAndInnerSets ==
    (WeightCalled /\ TransitivelyContains(ret.qset, ret.node)) =>
        ret.weight =
            FMul(Rat(ret.qset.threshold,
                     Len(ret.qset.validators) + Len(ret.qset.inner_quorum_sets)),
                 node_weight_in_quorum_set(ret.node,
                     FirstChildContaining(ret.qset, ret.node)))

\* C11 amended: for a node v transitively contained in q, node_weight_in(q, v)
\* is (T/|Q|) * node_weight_in(c, v), |Q| being the number of nodes
\* transitively contained in q and c the first inner set of q that
\* transitively contains v (the factor is 1 when no inner set does).
C11_WeightOverContainedNodes ==
    (WeightCalled /\ TransitivelyContains(ret.qset, ret.node)) =>
        ret.weight =
            FMul(Rat(ret.qset.threshold, Cardinality(NodesOf(ret.qset))),
                 node_weight_in_quorum_set(ret.node,
                     FirstChildContaining(ret.qset, ret.node)))

\* a node below the first level of a set that contains more nodes than it
\* has validators and inner sets, with a weight that is neither 0 nor 1
C11_Witness ==
    /\ WeightCalled
    /\ TransitivelyContains(ret.qset, ret.node)
    /\ ~DirectValidator(ret.qset, ret.node)
    /\ Cardinality(NodesOf(ret.qset)) >
          Len(ret.qset.validators) + Len(ret.qset.inner_quorum_sets)
    /\ FirstChildContaining(ret.qset, ret.node).inner_quorum_sets # <<>>
    /\ FLess(Zero, ret.weight)
    /\ FLess(ret.weight, FromInt(1))

\* C12: for v a direct validator of the inner set I of Q that the recursion
\* enters, and no direct validator of Q, node_weight_in_quorum_set(v, Q) is
\* (threshold(Q) / nodes contained in Q) * (threshold(I) / nodes contained
\* in I); the paper example gives 0.375 for node 2.
C12_WeightOfValidatorOfInnerSet ==
    (/\ WeightCalled
     /\ ~DirectValidator(ret.qset, ret.node)
     /\ DirectValidator(FirstChildContaining(ret.qset, ret.node), ret.node))
    => LET I == FirstChildContaining(ret.qset, ret.node)
       IN  ret.weight =
               FMul(Rat(ret.qset.threshold, Cardinality(NodesOf(ret.qset))),
                    Rat(I.threshold, Cardinality(NodesOf(I))))

\* C13: for v among the direct validators of q, node_weight_in(q, v) is the
\* single factor T/|Q| of q, also when v occurs inside an inner set of q.
C13_DirectValidatorStopsRecursion ==
    (WeightCalled /\ DirectValidator(ret.qset, ret.node)) =>
        ret.weight = Rat(ret.qset.threshold, Cardinality(NodesOf(ret.qset)))

\* C14: for v not transitively contained in q, nodes_nesting_depth(q, v) is
\* 0 and node_weight_in(q, v) is 1, with or without inner quorum sets.
C14_MissingNodeHasDepthZeroWeightOne ==
    (WeightCalled /\ ~TransitivelyContains(ret.qset, ret.node)) =>
        /\ ret.depth = 0
        /\ ret.weight = FromInt(1)

(* ------------------------------- rounding ------------------------------ *)

\* the multiple of 1/1000 nearest to the rational x >= 0, as its numerator;
\* a tie goes to the even one
HalfEvenThousandths(x) ==
    LET scaled == 1000 * x[1]
        low == scaled \div x[2]
        twice == 2 * (scaled % x[2])
    IN  IF twice < x[2] THEN low
        ELSE IF twice > x[2] THEN low + 1
        ELSE IF low % 2 = 0 THEN low ELSE low + 1

\* C17: round_to_three_places(x) is the multiple of 0.001 nearest to x, ties
\* going to the even last digit.
C17_RoundHalfToEven ==
    (pc = "done" /\ ret.op = "round") =>
        ret.out = Rat(HalfEvenThousandths(ret.n), 1000)

(* ------------------------------ the reports ---------------------------- *)

ReportCalled == ret.op \in {"ranking_report", "reward_report"}

\* the nodes a report was asked about
ReportedNodes ==
    IF ret.op = "ranking_report" THEN ret.nodes
    ELSE [k \in DOMAIN ret.input |-> ret.input[k][1]]

\* the score the caller holds for node n
OwnScore(n) ==
    IF ret.op = "ranking_report" THEN ret.scores[n + 1]
    ELSE LET k == CHOOSE k \in DOMAIN ret.input : ret.input[k][1] = n
         IN  ret.input[k][2]

\* the reward the allocation holds for node n
OwnReward(n) ==
    LET k == CHOOSE k \in DOMAIN ret.input : ret.input[k][1] = n
    IN  ret.input[k][3]

\* row a stands before row b: higher score, or the same score and lower id
StandsBefore(a, b) ==
    \/ FLess(b[3], a[3])
    \/ a[3] = b[3] /\ a[1] < b[1]

\* C15: both reports return one tuple per input node, each with that node's
\* own score (and reward), ordered by score descending and, among equal
\* scores, by NodeId ascending.
C15_ReportPerNodeSortedByScoreThenId ==
    ReportCalled =>
        /\ pc = "done"
        /\ Len(ret.out) = Len(ReportedNodes)
        /\ {ret.out[k][1] : k \in DOMAIN ret.out} = Range(ReportedNodes)
        /\ \A k \in DOMAIN ret.out :
              /\ ret.out[k][3] = OwnScore(ret.out[k][1])
              /\ ret.op = "reward_report" =>
                    ret.out[k][4] = OwnReward(ret.out[k][1])
        /\ \A i, j \in DOMAIN ret.out :
              i < j => StandsBefore(ret.out[i], ret.out[j])

(* --------------------------- symmetric top tiers ----------------------- *)

\* the transposition of nodes a and b
Swap(a, b, n) == IF n = a THEN b ELSE IF n = b THEN a ELSE n

\* exchanging a and b maps the FBAS onto itself: the node in n's place accepts
\* the image of S as a slice exactly when n accepts S
MapsOntoItself(f, a, b) ==
    \A n \in DOMAIN f, S \in SUBSET (DOMAIN f) :
        is_quorum_slice(f[n], S)
            <=> is_quorum_slice(f[Swap(a, b, n)], {Swap(a, b, m) : m \in S})

\* every permutation of the top-tier players (a product of transpositions)
\* maps the FBAS onto itself
SymmetricTopTier(f) ==
    \A a \in TopTierOf(f), b \in TopTierOf(f) : MapsOntoItself(f, a, b)

\* rank_nodes returned the exact index enumerated over the FBAS's top tier
RankedOverTopTier ==
    /\ pc = "done"
    /\ call.op = "rank_exact"
    /\ Range(used_tt) = TopTierOf(fbas)

\* C16 as stated: on an FBAS with a symmetric top tier all entries of the
\* exact power index are equal, score[i] = score[j] for all nodes i, j.
C16_SymmetricTopTierAllScoresEqual ==
    (RankedOverTopTier /\ SymmetricTopTier(fbas)) =>
        \A i \in DOMAIN scores, j \in DOMAIN scores :
            ~IsNaN(scores[i]) /\ scores[i] = scores[j]

\* C16: on an FBAS with a symmetric top tier the exact power index gives all
\* top-tier players one and the same score (the nodes outside the top tier
\* get 0, whatever the top tier gets).
C16_SymmetricTopTierEqualScoresWithin ==
    (RankedOverTopTier /\ SymmetricTopTier(fbas)) =>
        /\ \A i \in TopTierOf(fbas), j \in TopTierOf(fbas) :
              ~IsNaN(scores[i + 1]) /\ scores[i + 1] = scores[j + 1]
        /\ \A i \in Nodes \ TopTierOf(fbas) : scores[i + 1] = Zero

\* a symmetric top tier of several players with a positive score, and a node
\* outside the top tier
C16_Witness ==
    /\ RankedOverTopTier
    /\ SymmetricTopTier(fbas)
    /\ Cardinality(TopTierOf(fbas)) >= 2
    /\ Nodes \ TopTierOf(fbas) # {}
    /\ \E i \in TopTierOf(fbas) : FLess(Zero, scores[i + 1])

(* ------------------------- the measurement harness --------------------- *)

\* a run of the harness got past its command line
BatchStarted == batch.status # "none"

\* the rows of the CSV at the output path when the run started
ExistingRows ==
    IF batch.args.output_path /\ batch.existing # NoFile
    THEN batch.existing[1] ELSE <<>>

\* the (top_tier_size, run) keys the command line asks for
GeneratedKeys ==
    {<<m, r>> : m \in {n \in 1 .. batch.args.max_top_tier_size :
                          n % (IF batch.args.fbas_type = "Stellar" THEN 3 ELSE 1) = 0},
                r \in 0 .. (batch.args.runs - 1)}

KeyOfRow(row) == <<row.top_tier_size, row.run>>

ExistingKeys == {KeyOfRow(ExistingRows[i]) : i \in DOMAIN ExistingRows}

AnalyzeTasks == {k \in DOMAIN batch.tasks : batch.tasks[k].kind = "Analyze"}

ReuseTasks == {k \in DOMAIN batch.tasks : batch.tasks[k].kind = "Reuse"}

\* C18: in --update mode the task list has an Analyze task for a generated
\* input exactly when no existing row has its (top_tier_size, run) key, and a
\* Reuse task for every existing row; a key with an existing row is never
\* analysed again: its data point is the existing row.
C18_UpdateAnalysesOnlyMissingKeys ==
    (BatchStarted /\ batch.args.update /\ batch.status # "read_failed") =>
        /\ \A key \in GeneratedKeys :
              Cardinality({k \in AnalyzeTasks : batch.tasks[k].input = key})
                  = IF key \in ExistingKeys THEN 0 ELSE 1
        /\ \A k \in AnalyzeTasks : batch.tasks[k].input \in GeneratedKeys
        /\ \A i \in DOMAIN ExistingRows :
              Cardinality({k \in ReuseTasks :
                              batch.tasks[k].output = ExistingRows[i]}) = 1
        /\ Cardinality(ReuseTasks) = Len(ExistingRows)
        /\ \A k \in DOMAIN batch.results :
              (batch.results[k] # <<>>
                  /\ KeyOfRow(batch.results[k][1]) \in ExistingKeys)
              => \E i \in DOMAIN ExistingRows :
                    batch.results[k][1] = ExistingRows[i]

\* an --update run that finished, with a generated key that had a row, one
\* that had none, and an existing row beyond the generated keys
C18_Witness ==
    /\ BatchStarted
    /\ batch.status = "finished"
    /\ batch.args.update
    /\ GeneratedKeys \cap ExistingKeys # {}
    /\ GeneratedKeys \ ExistingKeys # {}
    /\ ExistingKeys \ GeneratedKeys # {}
    /\ \E k \in AnalyzeTasks, j \in ReuseTasks : k < j

\* C19: with an output path whose file exists and without --update, write_csv
\* returns the 'output exists' error, no row is written and the file keeps
\* its contents.
C19_ExistingOutputIsNotOverwritten ==
    (BatchStarted /\ batch.args.output_path /\ batch.existing # NoFile
        /\ ~batch.args.update) =>
        /\ batch.status = "output_exists"
        /\ pc = "aborted"
        /\ batch.written = 0
        /\ batch.stdout = <<>>
        /\ batch.file = batch.existing

\* the refusal, for a file with rows and a command line asking for analyses
C19_Witness ==
    /\ BatchStarted
    /\ batch.status = "output_exists"
    /\ batch.existing # NoFile
    /\ batch.existing[1] # <<>>
    /\ AnalyzeTasks # {}
    /\ batch.file = batch.existing

\* C20: whatever the number of worker threads and their interleaving, the
\* exact power index of an fbas_size is computed at most once per process.
C20_TruthComputedAtMostOncePerSize ==
    BatchStarted => \A size \in DOMAIN batch.computed : batch.computed[size] <= 1

\* the Shapley-Shubik index of every node of the FBAS the harness makes for a
\* size, over that FBAS's top tier
ExactIndexOfSize ==
    [fbas_type \in FbasTypes, size \in 1 .. MaxTopTierSize |->
        LET f == make_one(fbas_type, size)
        IN  [i \in 1 .. size |-> ShapleyIndex(i - 1, f, TopTierOf(f))]]

\* v is the exact power index of the FBAS of that size, to three decimals
IsExactIndex(v, size) ==
    /\ Len(v) = size
    /\ \A i \in 1 .. size :
          LET exact == ExactIndexOfSize[batch.args.fbas_type, size][i]
              diff == FAdd(FMul(v[i], FromInt(1000)),
                           FMul(exact, FromInt(-1000)))
          IN  IsFinite(v[i]) /\ FLess(FromInt(-1), diff) /\ FLess(diff, FromInt(1))

\* C21: a miss of the truth cache never fails; the exact power index is
\* computed and stored, so a returned call leaves an entry for its fbas_size, and
\* every cached entry and every returned value is the exact power index of
\* the FBAS of that size, whatever the interleaving.
C21_CacheMissIsBenign ==
    BatchStarted =>
        /\ batch.status # "worker_panicked"
        /\ \A size \in DOMAIN batch.cache :
              batch.cache[size] # <<>> => IsExactIndex(batch.cache[size][1], size)
        /\ \A k \in AnalyzeTasks :
              batch.results[k] # <<>> =>
                  /\ IsExactIndex(batch.results[k][1].data, batch.tasks[k].input[1])
                  /\ batch.cache[batch.tasks[k].input[1]] # <<>>

\* a size analysed twice with one computation, the other value coming from
\* the cache, and a miss for a size of several nodes
C21_Witness ==
    /\ BatchStarted
    /\ \E size \in DOMAIN batch.computed :
          /\ batch.computed[size] = 1
          /\ Cardinality({k \in AnalyzeTasks :
                 batch.results[k] # <<>> /\ batch.tasks[k].input[1] = size}) >= 2
    /\ \E size \in DOMAIN batch.computed : size >= 2 /\ batch.computed[size] >= 1

\* the run opened its writer on the output path
WriterOpened ==
    /\ BatchStarted
    /\ batch.args.output_path
    /\ batch.status \notin {"output_exists", "read_failed"}

\* the data points serialized and flushed so far in this run
FlushedRows == [k \in 1 .. batch.written |-> batch.results[k][1]]

IsPrefix(a, b) == Len(a) <= Len(b) /\ a = SubSeq(b, 1, Len(a))

\* C22: a row flushed to the output CSV is neither removed nor altered by any
\* later step of the batch, a failure that ends the batch included; the file
\* holds exactly the rows flushed so far in this run.
C22_FlushedRowsArePreserved ==
    [][WriterOpened' =>
          /\ batch'.file = <<FlushedRows'>>
          /\ WriterOpened => IsPrefix(batch.file[1], batch'.file[1])]_vars

\* the batch ended by a failure with a row flushed and a task not yet written
C22_Witness ==
    /\ WriterOpened
    /\ batch.status = "write_failed"
    /\ batch.written >= 1
    /\ batch.file = <<FlushedRows>>
    /\ Len(batch.tasks) >= batch.written + 2

\* the run has stopped: main returned, with Ok or with an error
RunStopped == BatchStarted /\ pc \in {"done", "aborted"}

\* C29: in --update mode every row the output CSV held when the run started
\* is in it, unchanged, when the run stops, be it complete or ended by a
\* failure part-way through writing.
C29_UpdateKeepsExistingRows ==
    (RunStopped /\ batch.args.update) =>
        \A i \in DOMAIN ExistingRows :
            /\ batch.file # NoFile
            /\ \E j \in DOMAIN batch.file[1] : batch.file[1][j] = ExistingRows[i]

\* the rows the run has emitted, to the output CSV or to stdout
EmittedRows == IF batch.args.output_path THEN batch.file[1] ELSE batch.stdout

\* the key of the input or of the reused row of a task
KeyOfTask(task) ==
    IF task.kind = "Analyze" THEN task.input ELSE KeyOfRow(task.output)

\* the existing rows an --update run has loaded
LoadedKeys == IF batch.args.update THEN ExistingKeys ELSE {}

\* C28: for every J >= 1 and every interleaving, a run that completes emits
\* exactly one row per (top_tier_size, run) key of the generated inputs and the
\* existing rows, none missing, none twice, each with the key of its task.
C28_OneRowPerKey ==
    (BatchStarted /\ batch.status = "finished") =>
        /\ {KeyOfRow(EmittedRows[k]) : k \in DOMAIN EmittedRows}
              = GeneratedKeys \cup LoadedKeys
        /\ Len(EmittedRows) = Cardinality(GeneratedKeys \cup LoadedKeys)
        /\ Len(EmittedRows) = Len(batch.tasks)
        /\ \A k \in DOMAIN batch.tasks :
              /\ KeyOfRow(batch.results[k][1]) = KeyOfTask(batch.tasks[k])
              /\ \E j \in DOMAIN EmittedRows : EmittedRows[j] = batch.results[k][1]

\* a completed run of several threads with analysed and reused rows, two
\* threads having computed the truth of one size
C28_Witness ==
    /\ BatchStarted
    /\ batch.status = "finished"
    /\ batch.args.jobs >= 2
    /\ AnalyzeTasks # {}
    /\ ReuseTasks # {}
    /\ \E size \in DOMAIN batch.computed : batch.computed[size] >= 2
    /\ Len(EmittedRows) >= 3


(* ---------------- the sampled orders of the approximation ---------------- *)

\* C23: when the player whose score is estimated is absent from the sample,
\* the estimation aborts and no contribution is counted for that sample
C23_AbsentPlayerAborts ==
    (call.op = "approx_player" /\ loop.player \notin Range(loop.order))
        => pc = "aborted"

\* C27: when an approximation of the whole game returns and the players
\* together contain a quorum, the players' counts of pivotal samples add up
\* to the number of samples, as they do when every player is scored against
\* the same sampled orders
C27_PivotalCountsAddUpToSamples ==
    (/\ pc = "done"
     /\ call.op \in {"approx_game", "rank_approx"}
     /\ contains_quorum(Range(Players), fbas))
        => FSum(raw) = FromInt(call.samples)

(* ---------------- the players of the game ---------------- *)

\* the ids of a list, each once, in the order of their first occurrence
RECURSIVE FirstOccurrences(_)
FirstOccurrences(v) ==
    IF v = <<>> THEN <<>>
    ELSE LET front == FirstOccurrences(SubSeq(v, 1, Len(v) - 1))
             last == v[Len(v)]
         IN  IF last \in Range(front) THEN front ELSE Append(front, last)

\* C24: the players of a game built by init_from_fbas or
\* init_from_fbas_with_top_tier are the ids of the node list, each exactly
\* once and in the order of first occurrence, whatever the list
C24_PlayersAreNodesWithoutDuplicates ==
    ret.op \in {"init_from_fbas", "init_from_fbas_with_top_tier"}
        => ret.game.players = FirstOccurrences(ret.nodes)

(* ---------------- the branch the weight follows ---------------- *)

\* the inner sets of q that transitively contain v, by their index
ChildrenContaining(q, v) ==
    {i \in DOMAIN q.inner_quorum_sets :
        TransitivelyContains(q.inner_quorum_sets[i], v)}

\* the levels of the quorum-set tree q
RECURSIVE Height(_)
Height(q) ==
    IF q.inner_quorum_sets = <<>> THEN 1
    ELSE LET below == {Height(q.inner_quorum_sets[i]) :
                          i \in DOMAIN q.inner_quorum_sets}
         IN  1 + (CHOOSE h \in below : \A g \in below : g <= h)

\* C25: find_next_quorum_set_containing_node returns the first inner set, in
\* declaration order, that transitively contains v, and the empty quorum set
\* when none does; node_weight_in_quorum_set multiplies the factor of q by
\* the weight in that one set; the set it recurses into is the empty set,
\* where it stops, or a tree of fewer levels, so the recursion ends.
C25_WeightFollowsFirstInnerSetContainingNode ==
    WeightCalled =>
        /\ ret.next = FirstChildContaining(ret.qset, ret.node)
        /\ ChildrenContaining(ret.qset, ret.node) = {} => ret.next = new_empty
        /\ ret.depth # 0 =>
              ret.weight =
                  FMul(qset_weight(ret.qset),
                       node_weight_in_quorum_set(ret.node,
                           FirstChildContaining(ret.qset, ret.node)))
        /\ \/ /\ ret.next = new_empty
              /\ node_weight_in_quorum_set(ret.node, new_empty) = FromInt(1)
           \/ Height(ret.next) < Height(ret.qset)

\* v is contained in two inner sets of q, and the weight is the one along
\* the first of them, which is not the one along the second
C25_Witness ==
    /\ WeightCalled
    /\ Cardinality(ChildrenContaining(ret.qset, ret.node)) >= 2
    /\ ret.next = ret.qset.inner_quorum_sets[1]
    /\ ret.weight # FMul(qset_weight(ret.qset),
                         node_weight_in_quorum_set(ret.node,
                             ret.qset.inner_quorum_sets[2]))

(* ---------------- the nesting depth of a node ---------------- *)

\* the 1-based level of the highest occurrence of v in q, v contained in q
RECURSIVE Level(_, _)
Level(q, v) ==
    IF DirectValidator(q, v) THEN 1
    ELSE 1 + Min({Level(q.inner_quorum_sets[i], v) :
                     i \in ChildrenContaining(q, v)})

\* C26: for v transitively contained in q, nodes_nesting_depth(q, v) is the
\* level of v's occurrence, 1 for a direct validator of q, 2 for one of an
\* inner set, 3 for one of an inner set of an inner set, at whatever index
\* the inner sets stand among their siblings
C26_NestingDepthIsLevelOfOccurrence ==
    (WeightCalled /\ TransitivelyContains(ret.qset, ret.node)) =>
        ret.depth = Level(ret.qset, ret.node)

(* ---------------- the command line's exact power index ---------------- *)

CliCalled == pc = "done" /\ ret.op \in {"rank_cmd", "distribute_cmd"}

\* C30: the scores of a power-index-enum command given exclude_tt_comp =
\* true are the scores the exact engine computes over the FBAS's own top
\* tier, those of the command without the argument
C30_ExcludeTtCompLeavesScoresUnchanged ==
    (CliCalled /\ ret.cfg.exclude_tt_comp = <<TRUE>>) =>
        LET other == rank_nodes_PowerIndexEnum(fbas, <<>>, call.qi_check)
        IN  ~other.panic => scores = other.scores

====
